---------------------------- MODULE Spec2Model ----------------------------
(***************************************************************************)
(* Model of maubot-expiringmessages (src/expirebot/bot.py, db.py).         *)
(*                                                                         *)
(* State: the two database tables (room_expiry_times, events), the sweep   *)
(* task (_expirer_loop / _process_expirations), every invocation of        *)
(* _redact_with_backoff, the semaphore and the last-redaction time of the  *)
(* plugin object, and the event handlers that are suspended between two    *)
(* database calls.                                                         *)
(*                                                                         *)
(* Time.  Two clocks are read by the code:                                 *)
(*   - datetime.now() (bot.py:116), the wall clock in ms: variable         *)
(*     wall_clock, moving forward through TimePoints;                      *)
(*   - loop.time() (bot.py:94,101), the monotonic clock.  The code only    *)
(*     uses differences of it, so the model keeps the differences, in ms,  *)
(*     saturated at ClockCap: since_last_redaction is                      *)
(*     loop.time() - _last_redaction_time.                                 *)
(* Every await that takes time (a sleep, a remote call) advances the       *)
(* monotonic differences by the time it took.                              *)
(***************************************************************************)
EXTENDS Integers, Sequences, FiniteSets, TLC

(***************************************************************************)
(* Bounds of the model.                                                    *)
(***************************************************************************)
\* Saturation point of the monotonic-clock differences (ms): from the
\* 100 ms spacing on, every value behaves alike.
ClockCap == 100

Rooms == {"r1"}

EventIds == {"e1", "e2"}

\* An event id names one message of one room.
room_of(e) == "r1"

\* origin_server_ts of each message, as get_event reports it (ms).
origin_server_ts(e) == IF e = "e2" THEN 3599000 ELSE 0

\* Wall-clock readings (ms) the model moves through.
TimePoints == <<3600000, 3700000>>

\* How many event handlers can be suspended between two database calls at
\* the same time.
MaxSuspended == 1

\* How long one remote call can take on the monotonic clock (ms).
CallDurations == {0, 50}

\* What the permission check is tried with: whether the power levels could
\* be read, the sender's level and the bot's level.
PermissionCases ==
    { <<TRUE, 50, 50>>, <<TRUE, 0, 50>>, <<TRUE, 50, 0>>, <<FALSE, 50, 50>> }

\* The command arguments `!expire set` is tried with, as character strings.
DurationArgs ==
    { <<"1", "h">>, <<"0", "s">>, <<"2", "h", "1", "d">>, <<"1">>, << >>,
      <<" ">>, <<"0", "d", "1", "h", "0", "m", "0", "s">>,
      <<"1", "0", "0", "0", "0", "0", "0", "0", "0", "0", "d">> }

(***************************************************************************)
(* Program constants.                                                      *)
(***************************************************************************)
min_redaction_interval == 100

max_retries == 5

base_delay == 1

max_delay == 32

batch_size == 10

batch_pause_ms == 500

loop_sleep_s == 60

default_expiry_ms == 7 * 24 * 60 * 60 * 1000

default_redact_level == 50

(***************************************************************************)
(* parse_duration (bot.py:15-35).  A string is a sequence of characters.   *)
(***************************************************************************)
Digits == {"0", "1", "2", "3", "4", "5", "6", "7", "8", "9"}

DigitValue(c) ==
    CASE c = "0" -> 0 [] c = "1" -> 1 [] c = "2" -> 2 [] c = "3" -> 3
      [] c = "4" -> 4 [] c = "5" -> 5 [] c = "6" -> 6 [] c = "7" -> 7
      [] c = "8" -> 8 [] c = "9" -> 9

IsSpace(c) == c \in {" ", "\t", "\n"}

\* str.strip(): drop leading and trailing whitespace.
RECURSIVE LStrip(_)
LStrip(s) == IF s # << >> /\ IsSpace(Head(s)) THEN LStrip(Tail(s)) ELSE s

RECURSIVE RStrip(_)
RStrip(s) ==
    IF s # << >> /\ IsSpace(s[Len(s)])
    THEN RStrip(SubSeq(s, 1, Len(s) - 1))
    ELSE s

Strip(s) == RStrip(LStrip(s))

\* Length of the run of digits at the head of s (the \d+ of a segment).
RECURSIVE DigitRun(_)
DigitRun(s) ==
    IF s # << >> /\ Head(s) \in Digits THEN 1 + DigitRun(Tail(s)) ELSE 0

\* int() of a run of digits.
RECURSIVE IntOf(_)
IntOf(s) ==
    IF s = << >> THEN 0
    ELSE 10 * IntOf(SubSeq(s, 1, Len(s) - 1)) + DigitValue(s[Len(s)])

\* The units of the pattern, in the order the pattern fixes.
Units == <<"d", "h", "m", "s">>

UnitSeconds(u) ==
    CASE u = 1 -> 86400 [] u = 2 -> 3600 [] u = 3 -> 60 [] u = 4 -> 1

\* The optional group for unit u at the head of s: the digits and the unit
\* letter it consumes, 0 when the group does not match there.
GroupLen(s, u) ==
    LET n == DigitRun(s)
    IN  IF n > 0 /\ Len(s) > n /\ s[n + 1] = Units[u] THEN n + 1 ELSE 0

\* The pattern's match from unit u on: ((\d+?)X)? then \s* between groups,
\* then the rest, anchored at the end.  The result is
\* [ok, present (a group matched), parts (int() of each group, 0 for a
\* group that did not match: groupdict(default="0"), bot.py:28)].
RECURSIVE MatchFrom(_, _)
MatchFrom(s, u) ==
    IF u > 4
    THEN [ok |-> s = << >>, present |-> FALSE, parts |-> <<0, 0, 0, 0>>]
    ELSE LET g    == GroupLen(s, u)
             r    == SubSeq(s, g + 1, Len(s))
             rest == IF u < 4 THEN LStrip(r) ELSE r
             m    == MatchFrom(rest, u + 1)
         IN  [ok      |-> m.ok,
              present |-> (g > 0) \/ m.present,
              parts   |-> [m.parts EXCEPT
                              ![u] = IF g > 0
                                     THEN IntOf(SubSeq(s, 1, g - 1))
                                     ELSE 0]]

\* The value raised as ValueError is modelled as -1, OverflowError as -2.
InvalidFormat == -1

OverflowError == -2

\* datetime.timedelta (bot.py:29-34) takes at most this many days.
MaxTimedeltaDays == 999999999

\* The days of timedelta(days, hours, minutes, seconds) after it has
\* normalised its arguments.
TimedeltaDays(parts) ==
    parts[1] + (parts[2] \div 24) + (parts[3] \div 1440)
        + (parts[4] \div 86400)
        + (((parts[2] % 24) * 3600 + (parts[3] % 1440) * 60
                + (parts[4] % 86400)) \div 86400)

\* td.total_seconds() (bot.py:35)
TotalSeconds(parts) ==
    parts[1] * UnitSeconds(1) + parts[2] * UnitSeconds(2)
        + parts[3] * UnitSeconds(3) + parts[4] * UnitSeconds(4)

parse_duration(duration_str) ==
    LET m == MatchFrom(Strip(duration_str), 1)
    IN  IF ~m.ok \/ ~m.present THEN InvalidFormat
        ELSE IF TimedeltaDays(m.parts) > MaxTimedeltaDays THEN OverflowError
        ELSE TotalSeconds(m.parts) * 1000

(***************************************************************************)
(* can_use_command (bot.py:44-81).  fetched is FALSE when reading the      *)
(* power levels raised.                                                    *)
(***************************************************************************)
\* A check that lets every sender pass.
can_use_command_by_all(fetched, user_level, bot_level, redact_level) == TRUE

can_use_command(fetched, user_level, bot_level, redact_level) ==
    IF ~fetched THEN FALSE
    ELSE IF user_level < redact_level THEN FALSE
    ELSE IF bot_level < redact_level THEN FALSE
    ELSE TRUE


(***************************************************************************)
(* State.                                                                  *)
(***************************************************************************)
VARIABLES
    room_expiry_times,    \* table room_expiry_times: room_id -> expiry_msec
    events,               \* table events: event_id -> room_id
    wall_idx,             \* datetime.now() is TimePoints[wall_idx]
    tracking,             \* track_expiring_message handlers between their
                          \* SELECT and their INSERT (by event id)
    joining,              \* join handlers between SELECT and upsert (by room)
    leaving,              \* leave handlers between SELECT and DELETE (by room)
    expirer_task,         \* "none" | "running" | "cancelled"
    loop_pc,              \* where _expirer_loop / _process_expirations is
    now_ms,               \* local now_ms of the running pass
    events_to_expire,     \* local events_to_expire of the running pass
    row_idx,              \* index of the row being processed (1-based)
    act,                  \* per caller: its _redact_with_backoff invocation
    redaction_semaphore,  \* -1: None (not created), else the free permits
    since_last_redaction, \* loop.time() - _last_redaction_time, saturated
    since_call_start,     \* "gap": time since the last client.redact call
                          \* started, saturated; -1 before the first call
    last_gap,             \* "gap": since_call_start when the latest call
                          \* started; -1 for the first call
    observed,             \* which of the records below are kept (fixed)
    failed_in_pass,       \* "pass": events the actuator returned False for
                          \* in the running pass
    cascaded_in_pass,     \* "pass": those of them a policy delete removed
    failed_fetch,         \* "errors": the events whose row the latest pass
                          \* could not read (join query or get_event failed)
    last_track,           \* "track": outcome of the latest INSERT of a
                          \* tracking handler
    last_cmd,             \* "cmd": the latest `set` or `unset` command and
                          \* what the bot responded
    last_change,          \* "policy": per room, the latest statement that
                          \* wrote its policy, and the ttl it found
    cancelled_in          \* "cancel": the await the sweep task was
                          \* cancelled in

vars ==
    << room_expiry_times, events, wall_idx, tracking, joining, leaving,
       expirer_task, loop_pc, now_ms, events_to_expire, row_idx, act,
       redaction_semaphore, since_last_redaction, since_call_start,
       last_gap, observed, failed_in_pass, cascaded_in_pass, failed_fetch,
       last_track, last_cmd, last_change, cancelled_in >>

store_vars == << room_expiry_times, events >>

handler_vars == << tracking, joining, leaving, last_track >>

loop_vars ==
    << expirer_task, loop_pc, now_ms, events_to_expire, row_idx,
       failed_fetch, failed_in_pass >>

actuator_vars ==
    << act, redaction_semaphore, since_last_redaction, since_call_start,
       last_gap >>

\* The tasks that can call _redact_with_backoff: the sweep task, and a second
\* eviction path that only the specification ConcSpec ever starts.
Callers == {"sweep", "aux"}

wall_clock == TimePoints[wall_idx]

\* The records kept beside the program's state; a specification keeps the
\* ones its properties read.
Observers == {"gap", "pass", "errors", "track", "cmd", "policy", "cancel"}

\* Record new under observer o, or keep old.
Observe(o, new, old) == IF o \in observed THEN new ELSE old

\* No command was given yet.
NoCmd ==
    [tick |-> FALSE, name |-> "none", room |-> "", user_level |-> 0,
     time_arg |-> << >>, response |-> "none"]

\* No statement wrote the policy of a room yet.  found is the ttl that the
\* statement replaced or deleted, NoPolicy when the room had none.
NoPolicy == -1

NoChange == [by |-> "none", found |-> NoPolicy]

\* The ttl of room in table, NoPolicy when it has none.
Lookup(table, room) == IF room \in DOMAIN table THEN table[room] ELSE NoPolicy

\* The record of a statement of handler by that wrote the policy of room.
Changed(by, room) ==
    Observe("policy",
            [last_change EXCEPT
                ![room] = [by |-> by, found |-> Lookup(room_expiry_times, room)]],
            last_change)

\* The locals of an invocation of _redact_with_backoff that is not running.
IdleAct ==
    [pc |-> "idle", room_id |-> "", event_id |-> "", attempt |-> 0,
     sleep_ms |-> 0, answers |-> << >>, delays |-> << >>, result |-> FALSE]

(***************************************************************************)
(* The database (db.py:8-23).  Every statement is atomic.                  *)
(***************************************************************************)
\* INSERT ... ON CONFLICT(room_id) DO NOTHING
UpsertIfAbsent(table, room, msec) ==
    [r \in DOMAIN table \cup {room} |->
        IF r \in DOMAIN table THEN table[r] ELSE msec]

\* INSERT ... ON CONFLICT(room_id) DO UPDATE SET expiry_msec=$2
\* (room_id is the PRIMARY KEY: one row per room).
Upsert(table, room, msec) ==
    [r \in DOMAIN table \cup {room} |-> IF r = room THEN msec ELSE table[r]]

\* A foreign key with no ON DELETE CASCADE.
CascadeNone(table, room) == {}

\* The rows of events that DELETE FROM room_expiry_times WHERE room_id = room
\* removes with the policy: FOREIGN KEY ... ON DELETE CASCADE.
Cascade(table, room) == {e \in DOMAIN table : table[e] = room}

\* A table events with no foreign key.
InsertAcceptedNoFK(e, room) == e \notin DOMAIN events

\* A table events that takes the row of an event id it has.
InsertAcceptedNoPK(e, room) == room \in DOMAIN room_expiry_times

\* INSERT INTO events(event_id, room_id): refused by PRIMARY KEY (the event id
\* is there) and by FOREIGN KEY (the room has no policy).
InsertAccepted(e, room) ==
    /\ e \notin DOMAIN events
    /\ room \in DOMAIN room_expiry_times

\* What the INSERT did, for last_track.
InsertOutcome(e, room) ==
    IF InsertAccepted(e, room) THEN "inserted"
    ELSE IF room \notin DOMAIN room_expiry_times THEN "refused_fk"
    ELSE "refused_pk"

Restrict(f, S) == [x \in S |-> f[x]]

\* The entries that the running pass fetched (bot.py:124).
PassIds == {events_to_expire[i].event_id : i \in DOMAIN events_to_expire}

\* DELETE FROM room_expiry_times WHERE room_id = room, with its cascade.
DeletePolicy(room) ==
    LET gone == Cascade(events, room)
    IN  /\ room_expiry_times' =
               Restrict(room_expiry_times, DOMAIN room_expiry_times \ {room})
        /\ events' = Restrict(events, DOMAIN events \ gone)
        /\ cascaded_in_pass' =
               Observe("pass", cascaded_in_pass \cup (gone \cap PassIds),
                       cascaded_in_pass)

\* A query that reports the default ttl for every room.
JoinRowDefault(e) ==
    [event_id |-> e, room_id |-> events[e], expiry_msec |-> default_expiry_ms]

\* SELECT e.event_id, e.room_id, r.expiry_msec FROM events e INNER JOIN
\* room_expiry_times r ON r.room_id = e.room_id
JoinRow(e) ==
    [event_id |-> e, room_id |-> events[e],
     expiry_msec |-> room_expiry_times[events[e]]]

JoinIds == {e \in DOMAIN events : events[e] \in DOMAIN room_expiry_times}

\* The orders the query can return its rows in (no ORDER BY).
RowOrders(S) ==
    {q \in [1 .. Cardinality(S) -> S] : \A e \in S : \E i \in DOMAIN q : q[i] = e}

(***************************************************************************)
(* Initial state: the plugin object after construction (bot.py:39-42), the *)
(* tables after upgrade_v1.                                                *)
(***************************************************************************)
InitWith(O) ==
    /\ observed = O
    /\ room_expiry_times = << >>
    /\ events = << >>
    /\ wall_idx = 1
    /\ tracking = {}
    /\ joining = {}
    /\ leaving = {}
    /\ expirer_task = "none"
    /\ loop_pc = "none"
    /\ now_ms = 0
    /\ events_to_expire = << >>
    /\ row_idx = 0
    /\ act = [c \in Callers |-> IdleAct]
    /\ redaction_semaphore = -1
    /\ since_last_redaction = ClockCap
    /\ since_call_start = -1
    /\ last_gap = -1
    /\ failed_in_pass = {}
    /\ cascaded_in_pass = {}
    /\ failed_fetch = {}
    /\ last_track = "none"
    /\ last_cmd = NoCmd
    /\ last_change = [room \in Rooms |-> NoChange]
    /\ cancelled_in = "none"

Init == InitWith({})

(***************************************************************************)
(* Commands.                                                               *)
(***************************************************************************)
\* mseconds = parse_duration(time_arg) (bot.py:202), for each argument.
mseconds == [time_arg \in DurationArgs |-> parse_duration(time_arg)]

\* What the bot responds to `set` (bot.py:197, 204, 215, 218) and to `unset`
\* (bot.py:226, 235, 238).  The handler of `set` catches ValueError only
\* (bot.py:203): an OverflowError leaves it with no response ("raised").
SetResponse(time_arg, fetched, user_level, bot_level, db_ok) ==
    IF ~can_use_command(fetched, user_level, bot_level, default_redact_level)
    THEN "denied"
    ELSE IF mseconds[time_arg] = InvalidFormat THEN "invalid"
    ELSE IF mseconds[time_arg] = OverflowError THEN "raised"
    ELSE IF ~db_ok THEN "failed"
    ELSE "done"

UnsetResponse(fetched, user_level, bot_level, db_ok) ==
    IF ~can_use_command(fetched, user_level, bot_level, default_redact_level)
    THEN "denied"
    ELSE IF ~db_ok THEN "failed"
    ELSE "done"

\* cmd_expire_set (bot.py:191-218)
cmd_expire_set(room, time_arg, fetched, user_level, bot_level, db_ok) ==
    /\ IF /\ can_use_command(fetched, user_level, bot_level, default_redact_level)
          /\ mseconds[time_arg] \notin {InvalidFormat, OverflowError}
          /\ db_ok
       THEN /\ room_expiry_times' =
                   Upsert(room_expiry_times, room, mseconds[time_arg])
            /\ last_change' = Changed("set", room)
       ELSE UNCHANGED << room_expiry_times, last_change >>
    /\ last_cmd' =
           Observe("cmd",
                   [tick |-> ~last_cmd.tick, name |-> "set", room |-> room,
                    user_level |-> user_level, time_arg |-> time_arg,
                    response |->
                        SetResponse(time_arg, fetched, user_level, bot_level,
                                    db_ok)],
                   last_cmd)
    /\ UNCHANGED << events, cascaded_in_pass, wall_idx >>
    /\ UNCHANGED << handler_vars, loop_vars, actuator_vars >>
    /\ UNCHANGED << observed, cancelled_in >>

\* cmd_expire_unset (bot.py:220-238)
cmd_expire_unset(room, fetched, user_level, bot_level, db_ok) ==
    /\ IF /\ can_use_command(fetched, user_level, bot_level, default_redact_level)
          /\ db_ok
       THEN /\ DeletePolicy(room)
            /\ last_change' = Changed("unset", room)
       ELSE UNCHANGED << store_vars, cascaded_in_pass, last_change >>
    /\ last_cmd' =
           Observe("cmd",
                   [tick |-> ~last_cmd.tick, name |-> "unset", room |-> room,
                    user_level |-> user_level, time_arg |-> << >>,
                    response |->
                        UnsetResponse(fetched, user_level, bot_level, db_ok)],
                   last_cmd)
    /\ UNCHANGED wall_idx
    /\ UNCHANGED << handler_vars, loop_vars, actuator_vars >>
    /\ UNCHANGED << observed, cancelled_in >>

(***************************************************************************)
(* Message events: track_expiring_message (bot.py:310-328) and             *)
(* track_expiring_sticker (bot.py:330-345), the same code after the        *)
(* msgtype test.                                                           *)
(***************************************************************************)
TrackableTypes ==
    {"m.text", "m.notice", "m.emote", "m.file", "m.image", "m.video",
     "m.location", "m.sticker"}

MsgTypes == {"m.text", "m.audio"}

\* Another handler may be suspended between its two database calls.
MaySuspend ==
    Cardinality(tracking) + Cardinality(joining) + Cardinality(leaving)
        < MaxSuspended

\* SELECT room_id, expiry_msec FROM room_expiry_times, then the scan for the
\* event's room (bot.py:316-320).
track_expiring_message_select(e, msgtype, db_ok) ==
    /\ e \notin tracking
    /\ IF msgtype \notin TrackableTypes
       THEN UNCHANGED << tracking, last_track >>
       ELSE IF db_ok /\ room_of(e) \in DOMAIN room_expiry_times
       THEN /\ MaySuspend
            /\ tracking' = tracking \cup {e}
            /\ UNCHANGED last_track
       ELSE UNCHANGED << tracking, last_track >>
    /\ UNCHANGED << store_vars, cascaded_in_pass, wall_idx, joining, leaving >>
    /\ UNCHANGED << loop_vars, actuator_vars >>
    /\ UNCHANGED << observed, cancelled_in, last_cmd, last_change >>

\* INSERT INTO events(event_id, room_id) (bot.py:321-327); a refused insert
\* raises, and the handler logs it.
track_expiring_message_insert(e, db_ok) ==
    /\ e \in tracking
    /\ tracking' = tracking \ {e}
    /\ IF ~db_ok
       THEN /\ UNCHANGED events
            /\ last_track' = Observe("track", "failed", last_track)
       ELSE /\ events' = IF InsertAccepted(e, room_of(e))
                        THEN Upsert(events, e, room_of(e))
                        ELSE events
            /\ last_track' =
                   Observe("track", InsertOutcome(e, room_of(e)), last_track)
    /\ UNCHANGED << room_expiry_times, cascaded_in_pass, wall_idx, joining, leaving >>
    /\ UNCHANGED << loop_vars, actuator_vars >>
    /\ UNCHANGED << observed, cancelled_in, last_cmd, last_change >>

(***************************************************************************)
(* Membership events of the bot: handle_membership_change (bot.py:347-450) *)
(***************************************************************************)
\* Leave: SELECT (bot.py:360-367)
handle_membership_change_leave_select(room) ==
    /\ room \notin leaving
    /\ MaySuspend
    /\ room \in DOMAIN room_expiry_times
    /\ leaving' = leaving \cup {room}
    /\ UNCHANGED << store_vars, cascaded_in_pass, wall_idx, tracking, joining, last_track >>
    /\ UNCHANGED << loop_vars, actuator_vars >>
    /\ UNCHANGED << observed, cancelled_in, last_cmd, last_change >>

\* Leave: DELETE (bot.py:370-379)
handle_membership_change_leave_delete(room, db_ok) ==
    /\ room \in leaving
    /\ leaving' = leaving \ {room}
    /\ IF db_ok
       THEN /\ DeletePolicy(room)
            /\ last_change' = Changed("leave", room)
       ELSE UNCHANGED << store_vars, cascaded_in_pass, last_change >>
    /\ UNCHANGED << wall_idx, tracking, joining, last_track >>
    /\ UNCHANGED << loop_vars, actuator_vars >>
    /\ UNCHANGED << observed, cancelled_in, last_cmd >>

\* Join: SELECT (bot.py:384-392)
handle_membership_change_join_select(room) ==
    /\ room \notin joining
    /\ MaySuspend
    /\ room \notin DOMAIN room_expiry_times
    /\ joining' = joining \cup {room}
    /\ UNCHANGED << store_vars, cascaded_in_pass, wall_idx, tracking, leaving, last_track >>
    /\ UNCHANGED << loop_vars, actuator_vars >>
    /\ UNCHANGED << observed, cancelled_in, last_cmd, last_change >>

\* Join: upsert of the default (bot.py:395-405)
handle_membership_change_join_upsert(room, db_ok) ==
    /\ room \in joining
    /\ joining' = joining \ {room}
    /\ IF db_ok
       THEN /\ room_expiry_times' =
                   Upsert(room_expiry_times, room, default_expiry_ms)
            /\ last_change' = Changed("join", room)
       ELSE UNCHANGED << room_expiry_times, last_change >>
    /\ UNCHANGED << events, cascaded_in_pass, wall_idx, tracking, leaving, last_track >>
    /\ UNCHANGED << loop_vars, actuator_vars >>
    /\ UNCHANGED << observed, cancelled_in, last_cmd >>

\* The wall clock moves on.
WallTick ==
    /\ wall_idx < Len(TimePoints)
    /\ wall_idx' = wall_idx + 1
    /\ UNCHANGED << store_vars, cascaded_in_pass >>
    /\ UNCHANGED << handler_vars, loop_vars, actuator_vars >>
    /\ UNCHANGED << observed, cancelled_in, last_cmd, last_change >>


(***************************************************************************)
(* The monotonic clock.                                                    *)
(***************************************************************************)
Sat(d) == IF d > ClockCap THEN ClockCap ELSE d

\* The clock differences after d more ms.
Later(since, d) == IF since = -1 THEN -1 ELSE Sat(since + d)

(***************************************************************************)
(* _redact_with_backoff (bot.py:83-113), for caller c.  An invocation runs *)
(* from one await to the next in one step; its pc names the await it is    *)
(* suspended in:                                                           *)
(*   "spacing"    asyncio.sleep of the spacing check       (bot.py:97)     *)
(*   "acquire"    waiting for the semaphore                (bot.py:99)     *)
(*   "redacting"  client.redact, holding the semaphore     (bot.py:100)    *)
(*   "backoff"    asyncio.sleep(delay)                     (bot.py:107)    *)
(*   "returned"   the result is with the caller                            *)
(***************************************************************************)
\* The locals of a new invocation (bot.py:83, 88-91).
NewAct(room, e) ==
    [pc |-> "attempt", room_id |-> room, event_id |-> e, attempt |-> 0,
     sleep_ms |-> 0, answers |-> << >>, delays |-> << >>, result |-> FALSE]

\* What client.redact can answer.  The except clause tells a rate limit by
\* "Too Many Requests" in str(e) (bot.py:104).
RemoteAnswers == {"ok", "rate_limited", "error"}

IsRateLimited(answer) == answer = "rate_limited"

RECURSIVE Pow2(_)
Pow2(n) == IF n = 0 THEN 1 ELSE 2 * Pow2(n - 1)

Min(a, b) == IF a < b THEN a ELSE b

\* A delay that grows by base_delay with each attempt.
BackoffLinear(attempt) == Min(base_delay * (attempt + 1), max_delay)

\* delay = min(base_delay * (2 ** attempt), max_delay) (bot.py:105), seconds.
BackoffDelay(attempt) == Min(base_delay * Pow2(attempt), max_delay)

\* The sleep that keeps redactions min_redaction_interval apart
\* (bot.py:94-97), in ms; 0 when none is needed.
SpacingSleep(time_since_last) ==
    IF time_since_last < min_redaction_interval
    THEN min_redaction_interval - time_since_last
    ELSE 0

\* A loop of one attempt more.
LoopContinuesOneMore(attempt) == attempt <= max_retries

\* for attempt in range(max_retries): the loop goes on or ends (bot.py:91).
LoopContinues(attempt) == attempt < max_retries

\* The actuator's part of the state: invocation a of one caller, the free
\* permits, the two clock differences, and whether client.redact was called.
ActState(a, sem, slr, scs) ==
    [a |-> a, sem |-> sem, slr |-> slr, scs |-> scs, started |-> FALSE]

\* client.redact called with no permit taken.
AtAcquireNoWait(a, sem, slr, scs) ==
    [ActState([a EXCEPT !.pc = "redacting"], sem, slr, scs)
        EXCEPT !.started = TRUE]

\* bot.py:99-100: async with self._redaction_semaphore.  No semaphore: the
\* statement raises, which the except clause reads as another error
\* (bot.py:108-110).  A free permit is taken and client.redact is called;
\* otherwise the invocation waits.
AtAcquire(a, sem, slr, scs) ==
    IF sem = -1
    THEN ActState([a EXCEPT !.pc = "returned", !.result = FALSE], sem, slr, scs)
    ELSE IF sem > 0
    THEN [ActState([a EXCEPT !.pc = "redacting"], sem - 1, slr, scs)
             EXCEPT !.started = TRUE]
    ELSE ActState([a EXCEPT !.pc = "acquire"], sem, slr, scs)

\* bot.py:91-99 and 112-113: the top of the for loop, up to the next await.
AtLoopTop(a, sem, slr, scs) ==
    IF ~LoopContinues(a.attempt)
    THEN ActState([a EXCEPT !.pc = "returned", !.result = FALSE], sem, slr, scs)
    ELSE IF SpacingSleep(slr) > 0
    THEN ActState([a EXCEPT !.pc = "spacing", !.sleep_ms = SpacingSleep(slr)],
                  sem, slr, scs)
    ELSE AtAcquire(a, sem, slr, scs)

\* bot.py:100-110: what the answer of client.redact makes of invocation a.
OnAnswer(a, answer) ==
    IF answer = "ok"
    THEN [a EXCEPT !.answers = Append(@, answer),
                   !.pc = "returned", !.result = TRUE]
    ELSE IF IsRateLimited(answer)
    THEN [a EXCEPT !.answers = Append(@, answer),
                   !.pc = "backoff",
                   !.delays = Append(@, BackoffDelay(a.attempt))]
    ELSE [a EXCEPT !.answers = Append(@, answer),
                   !.pc = "returned", !.result = FALSE]

\* _last_redaction_time set after every answer.
SinceLastAlways(answer, slr, dur) == 0

\* _last_redaction_time after the answer (bot.py:101): only success sets it.
SinceLastAfter(answer, slr, dur) == IF answer = "ok" THEN 0 ELSE Sat(slr + dur)

\* The new state of the actuator is st, for caller c.
SetAct(c, st) ==
    /\ act' = [act EXCEPT ![c] = st.a]
    /\ redaction_semaphore' = st.sem
    /\ since_last_redaction' = st.slr
    /\ since_call_start' =
           Observe("gap", IF st.started THEN 0 ELSE st.scs, since_call_start)
    /\ last_gap' = Observe("gap", IF st.started THEN st.scs ELSE last_gap, last_gap)

\* The call of _redact_with_backoff by c, d ms after the state was read.
CallAct(c, room, e, d) ==
    SetAct(c, AtLoopTop(NewAct(room, e), redaction_semaphore,
                        Sat(since_last_redaction + d),
                        Later(since_call_start, d)))

\* bot.py:97: the spacing sleep ends.
redact_with_backoff_spacing(c) ==
    /\ act[c].pc = "spacing"
    /\ SetAct(c, AtAcquire([act[c] EXCEPT !.sleep_ms = 0], redaction_semaphore,
                           Sat(since_last_redaction + act[c].sleep_ms),
                           Later(since_call_start, act[c].sleep_ms)))

\* bot.py:99: a permit is free for a waiting invocation.
redact_with_backoff_acquire(c) ==
    /\ act[c].pc = "acquire"
    /\ redaction_semaphore > 0
    /\ SetAct(c, AtAcquire(act[c], redaction_semaphore,
                           since_last_redaction, since_call_start))

\* A permit given back after a success only.
PermitsAfterOk(answer, sem) == IF answer = "ok" THEN sem + 1 ELSE sem

\* The free permits after client.redact has answered: the async with block
\* (bot.py:99-102) releases on every way out, a raised exception included.
PermitsAfterAnswer(answer, sem) == sem + 1

\* bot.py:100-110: client.redact answers after dur ms; the semaphore is
\* released; success records the time and returns True, a rate limit goes to
\* the backoff sleep, any other error returns False.
redact_with_backoff_redact(c, answer, dur) ==
    /\ act[c].pc = "redacting"
    /\ SetAct(c, ActState(OnAnswer(act[c], answer),
                          PermitsAfterAnswer(answer, redaction_semaphore),
                          SinceLastAfter(answer, since_last_redaction, dur),
                          Later(since_call_start, dur)))

\* bot.py:107, then 91-99 or 112-113: the backoff sleep ends and the loop
\* goes to its next attempt, or ends with False.
redact_with_backoff_backoff(c) ==
    /\ act[c].pc = "backoff"
    /\ LET d == 1000 * act[c].delays[Len(act[c].delays)]
       IN  SetAct(c, AtLoopTop([act[c] EXCEPT !.attempt = @ + 1],
                               redaction_semaphore,
                               Sat(since_last_redaction + d),
                               Later(since_call_start, d)))

\* One step of the invocation of _redact_with_backoff by c.
redact_with_backoff(c) ==
    /\ \/ redact_with_backoff_spacing(c)
       \/ \E answer \in RemoteAnswers, dur \in CallDurations :
              redact_with_backoff_redact(c, answer, dur)
       \/ redact_with_backoff_backoff(c)
    /\ UNCHANGED << store_vars, cascaded_in_pass, wall_idx >>
    /\ UNCHANGED << handler_vars, loop_vars >>
    /\ UNCHANGED << observed, cancelled_in, last_cmd, last_change >>

(***************************************************************************)
(* The sweep: start, stop, _expirer_loop (bot.py:157-167) and              *)
(* _process_expirations (bot.py:115-155).  loop_pc names the await the     *)
(* task is suspended in:                                                   *)
(*   "fetch"      self.database.fetch(events_query)        (bot.py:124)    *)
(*   "get_event"  self.client.get_event                    (bot.py:137)    *)
(*   "evict"      self._redact_with_backoff, and after it                  *)
(*                the DELETE                               (bot.py:139-144)*)
(*   "pass_done"  _process_expirations has returned        (bot.py:164)    *)
(*   "sleep"      asyncio.sleep(60)                        (bot.py:167)    *)
(***************************************************************************)
\* start up to bot.py:172: asyncio.create_task makes the sweep task, with
\* no semaphore yet.  The task's first step reads the wall clock
\* (bot.py:116) and goes to the join query.
start ==
    /\ expirer_task = "none"
    /\ expirer_task' = "running"
    /\ loop_pc' = "fetch"
    /\ now_ms' = wall_clock
    /\ UNCHANGED << events_to_expire, row_idx, failed_fetch, failed_in_pass >>
    /\ UNCHANGED actuator_vars
    /\ UNCHANGED << store_vars, cascaded_in_pass, wall_idx, handler_vars >>
    /\ UNCHANGED << observed, cancelled_in, last_cmd, last_change >>

\* start is between asyncio.create_task and asyncio.Semaphore(1)
\* (bot.py:172-173).
StartRuns == expirer_task = "running" /\ redaction_semaphore = -1

\* start at bot.py:173: the semaphore is created, with one permit.
start_semaphore ==
    /\ StartRuns
    /\ redaction_semaphore' = 1
    /\ UNCHANGED << since_last_redaction, since_call_start, last_gap >>
    /\ UNCHANGED << act, loop_vars >>
    /\ UNCHANGED << store_vars, cascaded_in_pass, wall_idx, handler_vars >>
    /\ UNCHANGED << observed, cancelled_in, last_cmd, last_change >>

\* An event loop that runs other tasks between the statements of start.
EventLoopFreeAtStart == TRUE

\* The event loop runs one task at a time, up to its next await: start has
\* no await between bot.py:172 and bot.py:173, so neither the new task nor
\* a handler runs until the semaphore is there.
EventLoopFree == ~StartRuns

\* The await the sweep task is suspended in: that of _redact_with_backoff
\* while it runs, else that of the loop.
SuspendedIn == IF act["sweep"].pc # "idle" THEN act["sweep"].pc ELSE loop_pc

\* A cancellation that leaves the async with block without releasing.
PermitsKept(pc, sem) == sem

\* The free permits after the cancellation of an invocation suspended in
\* pc: the async with block (bot.py:99-102) releases on its way out.
PermitsAfterCancel(pc, sem) == IF pc = "redacting" THEN sem + 1 ELSE sem

\* stop (bot.py:176-179): the task is cancelled in the await it is suspended
\* in.  CancelledError is no Exception: no except clause of the task
\* catches it (bot.py:103, 148, 154, 165).
stop ==
    /\ expirer_task = "running"
    /\ expirer_task' = "cancelled"
    /\ loop_pc' = "cancelled"
    /\ redaction_semaphore' =
           PermitsAfterCancel(act["sweep"].pc, redaction_semaphore)
    /\ cancelled_in' = Observe("cancel", SuspendedIn, cancelled_in)
    /\ act' = [act EXCEPT !["sweep"] = IdleAct]
    /\ now_ms' = 0
    /\ events_to_expire' = << >>
    /\ row_idx' = 0
    /\ UNCHANGED << failed_fetch, failed_in_pass >>
    /\ UNCHANGED << since_last_redaction, since_call_start, last_gap >>
    /\ UNCHANGED << store_vars, cascaded_in_pass, wall_idx, handler_vars >>
    /\ UNCHANGED << observed, last_cmd, last_change >>

\* The row being processed.
CurrentRow == events_to_expire[row_idx]

\* A cutoff that the message at the cutoff is older than.
IsExpiredOrAt(timestamp, now, expiration_ms) == timestamp <= now - expiration_ms

\* A cutoff that no message is older than.
IsExpiredNever(timestamp, now, expiration_ms) == FALSE

\* event_content.timestamp < cutoff, cutoff = now_ms - expiration_ms
\* (bot.py:134, 138).
IsExpired(timestamp, now, expiration_ms) == timestamp < now - expiration_ms

\* The pause after a batch (bot.py:128-129, 152-153): after row k of n, when
\* k closes a batch and rows are left.
BatchPause(k, n) ==
    IF k % batch_size = 0 /\ k < n THEN batch_pause_ms ELSE 0

\* There is a row after the current one (bot.py:128-131).
HasNextRow(k, n) == k < n

\* A pass that the error of a row ends.
FinishRowOrAbort(logged) ==
    /\ IF HasNextRow(row_idx, Len(events_to_expire)) /\ ~logged
       THEN /\ row_idx' = row_idx + 1
            /\ loop_pc' = "get_event"
       ELSE /\ row_idx' = row_idx
            /\ loop_pc' = "pass_done"
    /\ UNCHANGED << expirer_task, now_ms, events_to_expire >>

\* The end of the processing of the current row: on to the next row, or to
\* the end of the pass.  logged: the row logged an error (bot.py:147, 149),
\* which changes nothing.
FinishRow(logged) ==
    /\ IF HasNextRow(row_idx, Len(events_to_expire))
       THEN /\ row_idx' = row_idx + 1
            /\ loop_pc' = "get_event"
       ELSE /\ row_idx' = row_idx
            /\ loop_pc' = "pass_done"
    /\ UNCHANGED << expirer_task, now_ms, events_to_expire >>

\* The monotonic clock after the row's last await took d ms and the pause
\* between batches, if one is due.
ElapseRow(d) ==
    LET t == d + BatchPause(row_idx, Len(events_to_expire))
    IN  /\ since_last_redaction' = Sat(since_last_redaction + t)
        /\ since_call_start' =
               Observe("gap", Later(since_call_start, t), since_call_start)
        /\ UNCHANGED last_gap

\* bot.py:124 and 154-155: the join query; a database error ends the pass.
process_expirations_fetch(db_ok, order) ==
    /\ loop_pc = "fetch"
    /\ IF db_ok /\ order # << >>
       THEN /\ events_to_expire' = [i \in DOMAIN order |-> JoinRow(order[i])]
            /\ row_idx' = 1
            /\ loop_pc' = "get_event"
       ELSE /\ UNCHANGED << events_to_expire, row_idx >>
            /\ loop_pc' = "pass_done"
    /\ failed_fetch' =
           Observe("errors", IF db_ok THEN {} ELSE DOMAIN events, failed_fetch)
    /\ UNCHANGED << expirer_task, now_ms, failed_in_pass >>
    /\ UNCHANGED << store_vars, cascaded_in_pass, wall_idx >>
    /\ UNCHANGED << handler_vars, actuator_vars >>
    /\ UNCHANGED << observed, cancelled_in, last_cmd, last_change >>

\* bot.py:137-139 and 148-149: get_event answers after dur ms; an expired
\* message goes to _redact_with_backoff; an error is logged and the row ends.
process_expirations_get_event(got, dur) ==
    /\ loop_pc = "get_event"
    /\ IF got /\ IsExpired(origin_server_ts(CurrentRow.event_id), now_ms,
                          CurrentRow.expiry_msec)
       THEN /\ CallAct("sweep", CurrentRow.room_id, CurrentRow.event_id, dur)
            /\ loop_pc' = "evict"
            /\ UNCHANGED << expirer_task, now_ms, events_to_expire, row_idx >>
       ELSE /\ FinishRow(~got)
            /\ ElapseRow(dur)
            /\ UNCHANGED << act, redaction_semaphore >>
    /\ failed_fetch' =
           Observe("errors",
                   IF got THEN failed_fetch
                   ELSE failed_fetch \cup {CurrentRow.event_id},
                   failed_fetch)
    /\ UNCHANGED failed_in_pass
    /\ UNCHANGED << store_vars, cascaded_in_pass, wall_idx, handler_vars >>
    /\ UNCHANGED << observed, cancelled_in, last_cmd, last_change >>

\* DELETE FROM events WHERE event_id = $1 (bot.py:141-144)
DeleteEvent(e) == Restrict(events, DOMAIN events \ {e})

\* A sweep that deletes the row's entry whatever the actuator returned.
DeletesAlways(result, db_ok) == db_ok

\* The sweep deletes the row's entry: the actuator returned True
\* (bot.py:139) and the DELETE did not raise.
DeletesAfter(result, db_ok) == result /\ db_ok

\* bot.py:139-149: _redact_with_backoff has returned.  True: the DELETE
\* runs (an error of it is logged); False: logged.  The row ends.
process_expirations_evicted(db_ok) ==
    /\ loop_pc = "evict"
    /\ act["sweep"].pc = "returned"
    /\ events' = IF DeletesAfter(act["sweep"].result, db_ok)
                 THEN DeleteEvent(CurrentRow.event_id)
                 ELSE events
    /\ failed_in_pass' =
           IF act["sweep"].result THEN failed_in_pass
           ELSE Observe("pass", failed_in_pass \cup {CurrentRow.event_id},
                        failed_in_pass)
    /\ FinishRow(~act["sweep"].result \/ ~db_ok)
    /\ ElapseRow(0)
    /\ act' = [act EXCEPT !["sweep"] = IdleAct]
    /\ UNCHANGED failed_fetch
    /\ UNCHANGED << room_expiry_times, cascaded_in_pass, redaction_semaphore >>
    /\ UNCHANGED << wall_idx, handler_vars >>
    /\ UNCHANGED << observed, cancelled_in, last_cmd, last_change >>

\* A loop that an error of the pass ends: no sleep follows that pass.
expirer_loop_sleep_unless_error ==
    /\ loop_pc = "pass_done"
    /\ failed_fetch = {}
    /\ loop_pc' = "sleep"
    /\ failed_in_pass' = {}
    /\ cascaded_in_pass' = {}
    /\ events_to_expire' = << >>
    /\ row_idx' = 0
    /\ UNCHANGED << expirer_task, now_ms, failed_fetch >>
    /\ UNCHANGED << store_vars, wall_idx, handler_vars, actuator_vars >>
    /\ UNCHANGED << observed, cancelled_in, last_cmd, last_change >>

\* bot.py:164-167: the pass has returned; sleep 60 s.
expirer_loop_sleep ==
    /\ loop_pc = "pass_done"
    /\ loop_pc' = "sleep"
    /\ failed_in_pass' = {}
    /\ cascaded_in_pass' = {}
    /\ events_to_expire' = << >>
    /\ row_idx' = 0
    /\ UNCHANGED << expirer_task, now_ms, failed_fetch >>
    /\ UNCHANGED << store_vars, wall_idx, handler_vars, actuator_vars >>
    /\ UNCHANGED << observed, cancelled_in, last_cmd, last_change >>

\* bot.py:167, 162-164, 116: the sleep ends and the next pass starts.
expirer_loop_wake ==
    /\ loop_pc = "sleep"
    /\ loop_pc' = "fetch"
    /\ now_ms' = wall_clock
    /\ since_last_redaction' = Sat(since_last_redaction + 1000 * loop_sleep_s)
    /\ since_call_start' =
           Observe("gap", Later(since_call_start, 1000 * loop_sleep_s),
                   since_call_start)
    /\ UNCHANGED << expirer_task, events_to_expire, row_idx, failed_fetch,
                    failed_in_pass >>
    /\ UNCHANGED << act, redaction_semaphore, last_gap >>
    /\ UNCHANGED << store_vars, cascaded_in_pass, wall_idx, handler_vars >>
    /\ UNCHANGED << observed, cancelled_in, last_cmd, last_change >>

(***************************************************************************)
(* A second eviction path: another task that calls _redact_with_backoff.   *)
(* The plugin has none; ConcSpec adds it to put the actuator under         *)
(* concurrent callers.                                                     *)
(***************************************************************************)
aux_call(e) ==
    /\ redaction_semaphore # -1
    /\ act["aux"].pc = "idle"
    /\ CallAct("aux", room_of(e), e, 0)
    /\ UNCHANGED << store_vars, cascaded_in_pass, wall_idx >>
    /\ UNCHANGED << handler_vars, loop_vars >>
    /\ UNCHANGED << observed, cancelled_in, last_cmd, last_change >>

aux_return ==
    /\ act["aux"].pc = "returned"
    /\ act' = [act EXCEPT !["aux"] = IdleAct]
    /\ UNCHANGED << redaction_semaphore, since_last_redaction,
                    since_call_start, last_gap >>
    /\ UNCHANGED << store_vars, cascaded_in_pass, wall_idx >>
    /\ UNCHANGED << handler_vars, loop_vars >>
    /\ UNCHANGED << observed, cancelled_in, last_cmd, last_change >>

\* A permit comes free for an invocation that waits for it.
aux_acquire(c) ==
    /\ redact_with_backoff_acquire(c)
    /\ UNCHANGED << store_vars, cascaded_in_pass, wall_idx >>
    /\ UNCHANGED << handler_vars, loop_vars >>
    /\ UNCHANGED << observed, cancelled_in, last_cmd, last_change >>

(***************************************************************************)
(* Specifications.                                                         *)
(***************************************************************************)
\* The steps of the sweep task.
SweepStep ==
    /\ EventLoopFree
    /\ \/ \E db_ok \in BOOLEAN, order \in RowOrders(JoinIds) :
              process_expirations_fetch(db_ok, order)
       \/ \E got \in BOOLEAN, dur \in CallDurations :
              process_expirations_get_event(got, dur)
       \/ \E db_ok \in BOOLEAN : process_expirations_evicted(db_ok)
       \/ redact_with_backoff("sweep")
       \/ expirer_loop_sleep
       \/ expirer_loop_wake

\* The steps of the host and of the event handlers.
HandlerStep ==
    \/ start
    \/ start_semaphore
    \/ /\ EventLoopFree
       /\ \/ stop
          \/ \E room \in Rooms, time_arg \in DurationArgs, p \in PermissionCases,
                db_ok \in BOOLEAN :
                 cmd_expire_set(room, time_arg, p[1], p[2], p[3], db_ok)
          \/ \E room \in Rooms, p \in PermissionCases, db_ok \in BOOLEAN :
                 cmd_expire_unset(room, p[1], p[2], p[3], db_ok)
          \/ \E e \in EventIds, msgtype \in MsgTypes, db_ok \in BOOLEAN :
                 track_expiring_message_select(e, msgtype, db_ok)
          \/ \E e \in EventIds, db_ok \in BOOLEAN :
                 track_expiring_message_insert(e, db_ok)
          \/ \E room \in Rooms : handle_membership_change_leave_select(room)
          \/ \E room \in Rooms, db_ok \in BOOLEAN :
                 handle_membership_change_leave_delete(room, db_ok)
          \/ \E room \in Rooms : handle_membership_change_join_select(room)
          \/ \E room \in Rooms, db_ok \in BOOLEAN :
                 handle_membership_change_join_upsert(room, db_ok)
          \/ WallTick

Next == SweepStep \/ HandlerStep

Spec == Init /\ [][Next]_vars

\* The program with one of its records kept.
GapSpec == InitWith({"gap"}) /\ [][Next]_vars

PassSpec == InitWith({"pass"}) /\ [][Next]_vars

TrackSpec == InitWith({"track"}) /\ [][Next]_vars

PolicySpec == InitWith({"policy", "errors"}) /\ [][Next]_vars

CancelSpec == InitWith({"cancel"}) /\ [][Next]_vars

\* The commands and the event handlers alone, with the commands recorded.
CmdSpec == InitWith({"cmd", "policy"}) /\ [][HandlerStep]_vars

\* The event loop runs a task that can run: every await of the sweep task
\* (a sleep, a database call, a remote call) ends, with some result.
FairSpec ==
    /\ InitWith({"errors"})
    /\ [][Next]_vars
    /\ WF_vars(start_semaphore)
    /\ WF_vars(SweepStep)

\* The actuator under two concurrent callers.
AuxStep ==
    /\ EventLoopFree
    /\ \/ \E e \in EventIds : aux_call(e)
       \/ aux_return
       \/ redact_with_backoff("aux")
       \/ \E c \in Callers : aux_acquire(c)

\* What gives the sweep rows to evict: the host's start, a policy that
\* every message is past, and tracked messages.
FeedStep ==
    \/ start
    \/ start_semaphore
    \/ /\ EventLoopFree
       /\ \/ \E room \in Rooms :
                 cmd_expire_set(room, <<"0", "s">>, TRUE, 50, 50, TRUE)
          \/ \E e \in EventIds :
                 track_expiring_message_select(e, "m.text", TRUE)
          \/ \E e \in EventIds : track_expiring_message_insert(e, TRUE)

NextConc == SweepStep \/ AuxStep \/ FeedStep

ConcSpec == Init /\ [][NextConc]_vars

\* The two callers on an event loop that runs every task that can run
\* (every await of the sweep task and of the second caller ends), with a
\* semaphore that wakes its waiters: an invocation that finds the permit
\* free again and again gets it.
ConcFairSpec ==
    /\ Init
    /\ [][NextConc]_vars
    /\ WF_vars(start_semaphore)
    /\ WF_vars(SweepStep)
    /\ WF_vars(redact_with_backoff("aux"))
    /\ \A c \in Callers : SF_vars(aux_acquire(c))

(***************************************************************************)
(* Properties.                                                             *)
(***************************************************************************)
\* Entry e leaves the store in this step by the sweep's DELETE, issued
\* after _redact_with_backoff returned True for e in the running pass.
RemovedBySweep(e) ==
    /\ loop_pc = "evict"
    /\ CurrentRow.event_id = e
    /\ act["sweep"].pc = "returned"
    /\ act["sweep"].event_id = e
    /\ act["sweep"].result
    /\ act["sweep"].answers[Len(act["sweep"].answers)] = "ok"
    /\ act'["sweep"] = IdleAct

\* Entry e leaves the store in this step with the policy of its room.
RemovedByCascade(e) ==
    /\ events[e] \in DOMAIN room_expiry_times
    /\ events[e] \notin DOMAIN room_expiry_times'

\* Every entry that leaves the store leaves it by (a) or (b).
RemovalsJustified ==
    \A e \in DOMAIN events :
        e \notin DOMAIN events' => RemovedBySweep(e) \/ RemovedByCascade(e)

\* C1 as stated: a TrackedEntry leaves the store only by the sweep's delete
\* after the actuator returned True for it in that pass, or by cascade with
\* its room's policy; and every entry the actuator returned False for is
\* in the store when the pass ends.
C1_Original ==
    [][ /\ RemovalsJustified
        /\ loop_pc' = "pass_done" => failed_in_pass' \subseteq DOMAIN events'
      ]_vars

\* C1 amended: a TrackedEntry leaves the store only by (a) or (b); every
\* entry the actuator returned False for is in the store when the pass
\* ends, unless the policy of its room was deleted meanwhile (cascade).
C1_Amended ==
    [][ /\ RemovalsJustified
        /\ loop_pc' = "pass_done" =>
               (failed_in_pass' \ cascaded_in_pass') \subseteq DOMAIN events'
      ]_vars

\* A pass ends with an entry in the store that the actuator returned False
\* for, after another one was deleted.
C1_Witness ==
    /\ loop_pc = "pass_done"
    /\ Len(events_to_expire) = 2
    /\ cascaded_in_pass = {}
    /\ \E e \in failed_in_pass : DOMAIN events = {e}

\* C2: every TrackedEntry's room has a RoomPolicy, in every state: a step
\* that deletes a policy leaves no entry of that room, and the INSERT of a
\* tracking handler whose room lost its policy since the handler's SELECT
\* adds no row.
C2_ReferentialIntegrity ==
    [][ /\ \A e \in DOMAIN events' : events'[e] \in DOMAIN room_expiry_times'
        /\ \A room \in DOMAIN room_expiry_times :
               room \notin DOMAIN room_expiry_times' =>
                   \A e \in DOMAIN events' : events'[e] # room
        /\ \A e \in tracking \ tracking' :
               room_of(e) \notin DOMAIN room_expiry_times => events' = events
      ]_vars

\* A tracking handler's INSERT was refused for the missing policy, which a
\* delete removed, with its entries, after the handler's SELECT.
C2_Witness ==
    /\ last_track = "refused_fk"
    /\ DOMAIN room_expiry_times = {}
    /\ events = << >>
    /\ tracking = {}

\* C3: at most one client.redact call is in flight at any time, with two
\* tasks calling _redact_with_backoff.
C3_OneInFlight ==
    Cardinality({c \in Callers : act[c].pc = "redacting"}) <= 1

\* One call is in flight and the other caller waits for the permit.
C3_Witness ==
    \E c, d \in Callers :
        /\ act[c].pc = "redacting"
        /\ act[d].pc = "acquire"
        /\ redaction_semaphore = 0

\* _redact_with_backoff has returned to the sweep, which has not yet gone on
\* (bot.py:139).
SweepReturned == loop_pc = "evict" /\ act["sweep"].pc = "returned"

\* The remote delete calls the sweep's invocation has made so far.
SweepCalls == Len(act["sweep"].answers)

\* The sweep's invocation is for the current row of the pass, which the
\* pass found expired, and no other row of the pass has the same entry.
ForExpiredRow ==
    /\ act["sweep"].event_id = CurrentRow.event_id
    /\ IsExpired(origin_server_ts(CurrentRow.event_id), now_ms,
                 CurrentRow.expiry_msec)
    /\ \A i \in DOMAIN events_to_expire :
           events_to_expire[i].event_id = CurrentRow.event_id => i = row_idx

\* C4 as stated: for an expired entry, one pass calls the remote delete
\* exactly once, whatever the remote answers.
C4_Original == SweepReturned => ForExpiredRow /\ SweepCalls = 1

\* C4 amended: for an expired entry, one pass calls the remote delete at
\* least once and at most max_retries times: once when the first answer is
\* ok or an error that is no rate limit, and once more after each
\* RateLimited answer.
C4_Amended ==
    SweepReturned =>
        /\ ForExpiredRow
        /\ SweepCalls \in 1..max_retries
        /\ \A i \in 1..(SweepCalls - 1) :
               IsRateLimited(act["sweep"].answers[i])
        /\ \/ ~IsRateLimited(act["sweep"].answers[SweepCalls])
           \/ SweepCalls = max_retries

\* The remote was called three times for one expired entry, and the third
\* answer was ok.
C4_Witness ==
    /\ SweepReturned
    /\ act["sweep"].answers = << "rate_limited", "rate_limited", "ok" >>
    /\ act["sweep"].result

\* C5 as stated: the starts of any two successive remote delete calls are
\* at least 100 ms apart, whatever the previous call's answer was.
C5_Spacing == last_gap = -1 \/ last_gap >= min_redaction_interval

\* The answers of invocation a are five rate limits.
FiveRateLimited(a) ==
    /\ Len(a.answers) = 5
    /\ \A i \in 1..5 : a.answers[i] = "rate_limited"

\* C6: five RateLimited answers in one invocation give the backoff delays
\* 1, 2, 4, 8, 16 s in that order, none above 32 s; the invocation makes
\* exactly five remote calls, returns False, and calls the remote no more.
C6_Backoff ==
    LET a == act["sweep"]
    IN  /\ Len(a.answers) <= 5
        /\ \A i \in DOMAIN a.delays : a.delays[i] <= 32
        /\ FiveRateLimited(a) =>
               /\ a.delays = << 1, 2, 4, 8, 16 >>
               /\ a.pc \in {"backoff", "returned"}
               /\ a.pc = "returned" => ~a.result

\* An invocation has returned False after five RateLimited answers.
C6_Witness ==
    /\ FiveRateLimited(act["sweep"])
    /\ act["sweep"].pc = "returned"
    /\ ~act["sweep"].result
    /\ act["sweep"].attempt = 5

\* client.redact of the sweep's invocation answers in this step with an
\* error that is no rate limit.
OtherErrorStep ==
    /\ act["sweep"].pc = "redacting"
    /\ act'["sweep"].answers = Append(act["sweep"].answers, "error")

\* C7: an error that is no rate limit makes the invocation return False in
\* the same step, with no backoff sleep and no further remote call, and
\* _last_redaction_time is not written (the time since it does not drop).
C7_OtherError ==
    [][ OtherErrorStep =>
            /\ act'["sweep"].pc = "returned"
            /\ ~act'["sweep"].result
            /\ act'["sweep"].delays = act["sweep"].delays
            /\ act'["sweep"].attempt = act["sweep"].attempt
            /\ since_last_redaction' >= since_last_redaction
            /\ since_last_redaction' >= min_redaction_interval
      ]_vars

\* An invocation returned False on another error, after one rate limit.
C7_Witness ==
    /\ SweepReturned
    /\ act["sweep"].answers = << "rate_limited", "error" >>
    /\ act["sweep"].delays = << 1 >>
    /\ ~act["sweep"].result

\* The pass is at one of its rows.
AtRow == loop_pc \in {"get_event", "evict"}

\* The pass goes on from the current row in this step: to the next row if
\* there is one, to its end otherwise, with its rows and its cutoff as they
\* were.
RowEnds ==
    /\ events_to_expire' = events_to_expire
    /\ now_ms' = now_ms
    /\ expirer_task' = expirer_task
    /\ IF row_idx < Len(events_to_expire)
       THEN loop_pc' = "get_event" /\ row_idx' = row_idx + 1
       ELSE loop_pc' = "pass_done" /\ row_idx' = row_idx

\* The pass stays at the current row in this step.
RowGoesOn ==
    /\ events_to_expire' = events_to_expire
    /\ now_ms' = now_ms
    /\ row_idx' = row_idx
    /\ \/ loop_pc' = loop_pc
       \/ loop_pc = "get_event" /\ loop_pc' = "evict"

\* C8: an error of get_event or of the eviction of one row ends that row
\* only: its entry stays in the store, and the pass goes on with the next
\* row, or ends if the row was the last, as it does without an error.
C8_RowIsolation ==
    [][ AtRow =>
            /\ RowGoesOn \/ RowEnds \/ loop_pc' = "cancelled"
            /\ loop_pc = "get_event" /\ ~RowGoesOn => events' = events
            /\ loop_pc = "evict" /\ ~RowGoesOn /\ ~act["sweep"].result =>
                   events' = events
            /\ failed_in_pass' # failed_in_pass /\ loop_pc' # "cancelled" =>
                   /\ RowEnds
                   /\ events' = events
                   /\ failed_in_pass' =
                          failed_in_pass \cup {CurrentRow.event_id}
      ]_vars

\* The pass is at its second row after the actuator returned False for the
\* first one, which is still in the store.
C8_Witness ==
    /\ loop_pc = "get_event"
    /\ row_idx = 2
    /\ failed_in_pass = {events_to_expire[1].event_id}
    /\ failed_in_pass \subseteq DOMAIN events

\* A pass of _process_expirations is running.
InPass == loop_pc \in {"fetch", "get_event", "evict", "pass_done"}

\* C9: start puts the loop in a pass; a pass is followed by the sleep and
\* the sleep by a pass; every pass ends and every sleep ends, unless the
\* task is cancelled, whatever errors earlier passes had.
C9_LoopSurvives ==
    /\ [][ /\ expirer_task = "none" /\ expirer_task' = "running" =>
                  loop_pc' = "fetch"
           /\ InPass /\ ~InPass' => loop_pc' \in {"sleep", "cancelled"}
           /\ loop_pc = "sleep" /\ loop_pc' # "sleep" =>
                  loop_pc' \in {"fetch", "cancelled"}
           /\ loop_pc = "cancelled" => loop_pc' = "cancelled"
         ]_vars
    /\ InPass ~> loop_pc \in {"sleep", "cancelled"}
    /\ loop_pc = "sleep" ~> loop_pc \in {"fetch", "cancelled"}

\* A pass starts after a pass in which get_event or the join query failed.
C9_Witness ==
    /\ loop_pc = "fetch"
    /\ failed_fetch # {}
    /\ expirer_task = "running"

\* Entry e is in the store and its message is older than the TTL of its
\* room.
Due(e) ==
    /\ e \in DOMAIN events
    /\ events[e] \in DOMAIN room_expiry_times
    /\ wall_clock - origin_server_ts(e) > room_expiry_times[events[e]]

\* A remote delete call for e is in flight.
Attempt(e) == act["sweep"].pc = "redacting" /\ act["sweep"].event_id = e

Awaits ==
    {"fetch", "get_event", "spacing", "redacting", "backoff", "returned",
     "pass_done", "sleep"}

\* C11: after stop, in whichever await the task was suspended, the loop has
\* ended and starts no row and no remote call again; stop deletes no entry,
\* no entry is ever deleted but by the sweep after its remote delete
\* succeeded or by cascade, and the permit is free.
C11_Cancellation ==
    /\ [](expirer_task = "cancelled" =>
              /\ loop_pc = "cancelled"
              /\ act["sweep"] = IdleAct
              /\ redaction_semaphore = 1
              /\ cancelled_in \in Awaits)
    /\ [][ /\ expirer_task = "running" /\ expirer_task' = "cancelled" =>
                  UNCHANGED store_vars
           /\ expirer_task = "cancelled" =>
                  /\ expirer_task' = "cancelled"
                  /\ UNCHANGED << loop_pc, row_idx, events_to_expire, act,
                                  redaction_semaphore >>
           /\ \A e \in DOMAIN events :
                  e \notin DOMAIN events' =>
                      RemovedBySweep(e) \/ RemovedByCascade(e)
         ]_vars

\* The task was cancelled during a remote delete call: the permit is free
\* and the entries are in the store.
C11_Witness ==
    /\ expirer_task = "cancelled"
    /\ cancelled_in = "redacting"
    /\ redaction_semaphore = 1
    /\ DOMAIN events = EventIds

\* get_event answers for the current row in this step, late or not, or
\* raises.
GetEventStep ==
    /\ loop_pc = "get_event"
    /\ loop_pc' # "cancelled"
    /\ loop_pc' # "get_event" \/ row_idx' # row_idx

\* The message of the current row was observed before now_ms - ttl_ms, by
\* the ttl and the now_ms of the pass.
RowIsOlder ==
    origin_server_ts(CurrentRow.event_id) + CurrentRow.expiry_msec < now_ms

\* C12: a pass invokes the actuator for a row if and only if get_event
\* answered and the observed timestamp is strictly less than now_ms -
\* ttl_ms, now_ms being the wall clock at the start of the pass: with
\* ttl_ms = 3,600,000 and T = 0 a pass at T + 3,700,000 evicts and a pass at
\* T + ttl_ms does not, and with T = 3,599,000 a pass at T + 1,000 does not.
C12_Cutoff ==
    /\ [][ /\ GetEventStep =>
                  (loop_pc' = "evict" <=>
                       RowIsOlder /\ failed_fetch' = failed_fetch)
           /\ GetEventStep /\ loop_pc' = "evict" =>
                  /\ act'["sweep"].pc # "idle"
                  /\ act'["sweep"].event_id = CurrentRow.event_id
           /\ loop_pc # "fetch" /\ loop_pc' = "fetch" => now_ms' = wall_clock
           /\ loop_pc \in {"fetch", "get_event", "evict"}
                  /\ loop_pc' # "cancelled" => now_ms' = now_ms
         ]_vars
    /\ [](act["sweep"].pc # "idle" /\ CurrentRow.expiry_msec = 3600000 =>
              /\ now_ms = 3700000
              /\ act["sweep"].event_id = "e1")

\* With ttl_ms = 3,600,000 the message observed at 0 is with the actuator in
\* the pass at 3,700,000, after the row of the message observed at
\* 3,599,000 ended with no eviction.
C12_Witness ==
    /\ loop_pc = "evict"
    /\ now_ms = 3700000
    /\ Len(events_to_expire) = 2
    /\ row_idx = 2
    /\ CurrentRow = [room_id |-> "r1", event_id |-> "e1", expiry_msec |-> 3600000]
    /\ act["sweep"].pc = "redacting"
    /\ failed_fetch = {}
    /\ DOMAIN events = EventIds

\* A remote delete call for a message of room starts in this step.
CallStarts(room) ==
    /\ act["sweep"].pc # "redacting"
    /\ act'["sweep"].pc = "redacting"
    /\ act'["sweep"].room_id = room

\* C13 as stated: once `unset` has deleted the policy of a room, and until a
\* policy is written for the room again, no remote delete call starts for a
\* message of that room, whatever a running pass had fetched.
C13_NoDeleteAfterUnset ==
    [][ \A room \in Rooms :
            last_change[room].by = "unset" => ~CallStarts(room)
      ]_vars

\* The join handler of room does its write in this step, the leave handler
\* its delete.
JoinWrites(room) == room \in joining /\ room \notin joining'

LeaveDeletes(room) == room \in leaving /\ room \notin leaving'

\* In this step the policy of room is written with ttl and nothing else
\* changes in the Policy Store, or the statement fails and nothing changes.
WritesOnly(room, ttl) ==
    \/ room_expiry_times' = room_expiry_times
    \/ /\ DOMAIN room_expiry_times' = DOMAIN room_expiry_times \cup {room}
       /\ room_expiry_times'[room] = ttl
       /\ \A r \in DOMAIN room_expiry_times \ {room} :
              room_expiry_times'[r] = room_expiry_times[r]

\* C14 as stated: the join handler writes the policy ttl_ms = 604,800,000
\* for a room with no policy and leaves the ttl_ms of a room that has a
\* policy as it is, also of a policy that `set` wrote between the handler's
\* check and its write; the leave handler deletes the policy.
C14_Membership ==
    [][ \A room \in Rooms :
            /\ JoinWrites(room) =>
                   IF room \in DOMAIN room_expiry_times
                   THEN room_expiry_times' = room_expiry_times
                   ELSE WritesOnly(room, 604800000)
            /\ room \notin joining /\ room \in joining' =>
                   /\ room \notin DOMAIN room_expiry_times
                   /\ UNCHANGED store_vars
            /\ LeaveDeletes(room) =>
                   \/ UNCHANGED store_vars
                   \/ room \notin DOMAIN room_expiry_times'
      ]_vars

\* The tracking handler of message e finds a policy for its room in this
\* step (and goes on to its INSERT); it does its INSERT in this step.
TrackSelects(e) == e \notin tracking /\ e \in tracking'

TrackInserts(e) == e \in tracking /\ e \notin tracking'

HasPolicy(room) == room \in DOMAIN room_expiry_times

\* C15: the handler of a trackable message goes to its INSERT only if the
\* room has a policy, and the INSERT creates the entry (event_id, room_id)
\* if and only if the room has a policy then (and the database executed the
\* statement for an event id it did not have); entries are created in no
\* other way, and without a policy neither store changes.
C15_TrackIffPolicy ==
    [][ \A e \in EventIds :
            /\ TrackSelects(e) =>
                   HasPolicy(room_of(e)) /\ UNCHANGED store_vars
            /\ TrackInserts(e) =>
                   /\ room_expiry_times' = room_expiry_times
                   /\ e \in DOMAIN events' \ DOMAIN events <=>
                          /\ HasPolicy(room_of(e))
                          /\ e \notin DOMAIN events
                          /\ last_track' # "failed"
                   /\ e \in DOMAIN events' \ DOMAIN events =>
                          /\ events'[e] = room_of(e)
                          /\ DOMAIN events' = DOMAIN events \cup {e}
                          /\ \A d \in DOMAIN events : events'[d] = events[d]
                   /\ ~HasPolicy(room_of(e)) => UNCHANGED store_vars
            /\ e \in DOMAIN events' \ DOMAIN events => TrackInserts(e)
      ]_vars

\* The handler of e2 has created its entry, beside that of e1.
C15_Witness ==
    /\ last_track = "inserted"
    /\ DOMAIN events = EventIds
    /\ events["e2"] = "r1"
    /\ HasPolicy("r1")
    /\ tracking = {}

\* C16: the INSERT for an event id that the store has is refused inside the
\* handler, which ends, and both stores are as they were.
C16_DuplicateInsert ==
    [][ \A e \in EventIds :
            TrackInserts(e) /\ e \in DOMAIN events =>
                /\ UNCHANGED store_vars
                /\ last_track' \in {"refused_pk", "failed"}
                /\ tracking' = tracking \ {e}
      ]_vars

\* The second INSERT of an event id was refused and its entry is there.
C16_Witness ==
    /\ last_track = "refused_pk"
    /\ DOMAIN events = {"e1"}
    /\ tracking = {}

\* A `set` or `unset` command is handled in this step.
CommandStep == last_cmd'.tick # last_cmd.tick

\* Strings that are no duration: units out of order, no unit, nothing.
BadDurations == { <<"2", "h", "1", "d">>, <<"1">>, << >>, <<" ">> }

\* The command c is to be rejected: its sender's power level is below 50,
\* or it is a `set` with a string that is no duration.
ToReject(c) ==
    \/ c.user_level < 50
    \/ c.name = "set" /\ c.time_arg \in BadDurations

\* C17: a `set` or `unset` command of a sender below the redact level, or a
\* `set` with an invalid duration string, is answered with the rejection
\* and changes neither the Policy Store nor the Tracked-Entry Store.
C17_RejectedFrame ==
    [][ CommandStep /\ ToReject(last_cmd') =>
            /\ UNCHANGED store_vars
            /\ last_cmd'.response \in {"denied", "invalid"}
            /\ last_cmd'.response = "invalid" =>
                   last_cmd'.time_arg \in BadDurations
      ]_vars

\* `set 2h1d` was rejected as invalid in a room with a policy and tracked
\* messages.
C17_Witness ==
    /\ last_cmd.name = "set"
    /\ last_cmd.user_level = 50
    /\ last_cmd.time_arg = <<"2", "h", "1", "d">>
    /\ last_cmd.response = "invalid"
    /\ room_expiry_times = [room \in Rooms |-> 3600000]
    /\ DOMAIN events = EventIds

\* C18 as stated: every policy in the store has a strictly positive ttl_ms,
\* whatever duration string `set` accepted.
C18_PositiveTtl ==
    \A room \in DOMAIN room_expiry_times : room_expiry_times[room] > 0

\* The join query of a pass answers in this step.
PassFetches == loop_pc = "fetch" /\ loop_pc' = "get_event"

\* C19: the rows of a pass are the entries in the store when its query
\* runs, each once and each with the ttl its room has then, whenever the
\* entry was tracked; the pass judges every row by that ttl, and a row whose
\* message is older than the cutoff goes to the actuator in that pass when
\* get_event answers.
C19_NewTtl ==
    [][ /\ PassFetches =>
               /\ Len(events_to_expire') = Cardinality(DOMAIN events)
               /\ \A e \in DOMAIN events :
                      \E i \in DOMAIN events_to_expire' :
                          events_to_expire'[i] =
                              [event_id |-> e, room_id |-> events[e],
                               expiry_msec |-> room_expiry_times[events[e]]]
        /\ GetEventStep =>
               (loop_pc' = "evict" <=>
                    /\ failed_fetch' = failed_fetch
                    /\ origin_server_ts(CurrentRow.event_id)
                           < now_ms - CurrentRow.expiry_msec)
      ]_vars

\* The ttl of the room was lowered from 1 h to 0 by `set`; the message
\* observed at 3,599,000, which a pass at 3,600,000 keeps under 1 h, is with
\* the actuator in a pass at 3,600,000.
C19_Witness ==
    /\ last_change["r1"] = [by |-> "set", found |-> 3600000]
    /\ room_expiry_times["r1"] = 0
    /\ now_ms = 3600000
    /\ loop_pc = "evict"
    /\ CurrentRow = [event_id |-> "e2", room_id |-> "r1", expiry_msec |-> 0]
    /\ act["sweep"].pc = "redacting"
    /\ act["sweep"].event_id = "e2"

\* The ttl_ms that the valid duration strings stand for.
TtlOf(time_arg) == IF time_arg = <<"0", "s">> THEN 0 ELSE 3600000

\* C20: the Policy Store has one ttl per room that has a policy; a `set`
\* that the bot answers as done leaves the room with the ttl of its
\* argument, whatever ttl the room had (none, another one, the same one),
\* and changes nothing else.
C20_Upsert ==
    /\ [](/\ DOMAIN room_expiry_times \subseteq Rooms
          /\ \A room \in DOMAIN room_expiry_times :
                 room_expiry_times[room] \in Nat)
    /\ [][ CommandStep /\ last_cmd'.name = "set"
               /\ last_cmd'.response = "done" =>
               /\ WritesOnly(last_cmd'.room, TtlOf(last_cmd'.time_arg))
               /\ Lookup(room_expiry_times', last_cmd'.room) =
                      TtlOf(last_cmd'.time_arg)
               /\ last_change'[last_cmd'.room] =
                      [by |-> "set",
                       found |-> Lookup(room_expiry_times, last_cmd'.room)]
               /\ events' = events
         ]_vars

\* `set 0s` was done in a room whose ttl `set 1h` had written: the room's
\* only ttl is 0.
C20_Witness ==
    /\ last_cmd.name = "set"
    /\ last_cmd.response = "done"
    /\ last_cmd.time_arg = <<"0", "s">>
    /\ last_change["r1"] = [by |-> "set", found |-> 3600000]
    /\ room_expiry_times = [room \in Rooms |-> 0]

\* Strings made of the segments <d>d, <h>h, <m>m, <s>s in that order, at
\* least one present, with the numbers they are written with.
SegmentStrings ==
    { [str |-> <<"1", "h">>, d |-> 0, h |-> 1, m |-> 0, s |-> 0],
      [str |-> <<"0", "s">>, d |-> 0, h |-> 0, m |-> 0, s |-> 0],
      [str |-> <<"0", "d", "1", "h", "0", "m", "0", "s">>,
       d |-> 0, h |-> 1, m |-> 0, s |-> 0],
      [str |-> <<"1", "0", "0", "0", "0", "0", "0", "0", "0", "0", "d">>,
       d |-> 1000000000, h |-> 0, m |-> 0, s |-> 0] }

\* The empty string, a whitespace-only string, segments out of order.
NoSegmentStrings == { << >>, <<" ">>, <<"2", "h", "1", "d">> }

\* The handler of `set` applies parse_duration to its argument in this step.
ParseStep ==
    /\ CommandStep
    /\ last_cmd'.name = "set"
    /\ last_cmd'.response # "denied"

\* C21 as stated: parse_duration returns (d*86400 + h*3600 + m*60 + s)*1000
\* for every string made of the segments in order with at least one
\* present, and fails with the invalid-format error for the empty string,
\* the whitespace-only string and segments out of order.
C21_ParseDuration ==
    [][ ParseStep =>
            /\ \A g \in SegmentStrings :
                   last_cmd'.time_arg = g.str =>
                       /\ parse_duration(g.str) >= 0
                       /\ last_cmd'.response \in {"done", "failed"}
                       /\ parse_duration(g.str) =
                              (g.d * 86400 + g.h * 3600 + g.m * 60 + g.s)
                                  * 1000
                       /\ last_cmd'.response = "done" =>
                              Lookup(room_expiry_times', last_cmd'.room) =
                                  (g.d * 86400 + g.h * 3600 + g.m * 60 + g.s)
                                      * 1000
            /\ last_cmd'.time_arg \in NoSegmentStrings =>
                   /\ parse_duration(last_cmd'.time_arg) = InvalidFormat
                   /\ last_cmd'.response = "invalid"
      ]_vars

\* The statement of C21 for the strings whose days are within what
\* datetime.timedelta takes.
C21_WithinTimedelta ==
    [][ ParseStep =>
            /\ \A g \in SegmentStrings :
                   last_cmd'.time_arg = g.str /\ g.d <= MaxTimedeltaDays =>
                       /\ last_cmd'.response \in {"done", "failed"}
                       /\ parse_duration(g.str) =
                              (g.d * 86400 + g.h * 3600 + g.m * 60 + g.s)
                                  * 1000
                       /\ last_cmd'.response = "done" =>
                              Lookup(room_expiry_times', last_cmd'.room) =
                                  parse_duration(g.str)
            /\ last_cmd'.time_arg \in NoSegmentStrings =>
                   /\ parse_duration(last_cmd'.time_arg) = InvalidFormat
                   /\ last_cmd'.response = "invalid"
      ]_vars

\* The callers whose client.redact call is in flight.
InCall == {c \in Callers : act[c].pc = "redacting"}

\* C22: the permit is held only during a remote delete call: once the
\* semaphore exists, the one permit is free unless a call is in flight, so
\* it is free while an invocation sleeps for spacing or backoff with no
\* other call in flight and after every return (success, another error,
\* five rate limits), and an invocation that waits for the permit gets it
\* and makes its call.
C22_PermitOnlyInCall ==
    /\ [](redaction_semaphore # -1 =>
             redaction_semaphore = 1 - Cardinality(InCall))
    /\ [][ \A c \in Callers :
               act[c].pc # "returned" /\ act'[c].pc = "returned" =>
                   redaction_semaphore' = 1 - Cardinality(InCall \ {c})
        ]_vars
    /\ \A c \in Callers :
           (act[c].pc = "acquire") ~> (act[c].pc = "redacting")

\* The second caller's call is in flight, with the permit, while the sweep
\* sleeps in the backoff after its fourth rate limit.
C22_Witness ==
    /\ act["sweep"].pc = "backoff"
    /\ Len(act["sweep"].answers) = 4
    /\ act["aux"].pc = "redacting"
    /\ redaction_semaphore = 0

\* C23: start creates the sweep task before the semaphore, and the
\* semaphore is there before the task takes a step: while there is no
\* semaphore the task is where its creation left it and no invocation of
\* _redact_with_backoff exists, and no invocation ever comes to the acquire
\* with no semaphore.
C23_PermitBeforeAcquire ==
    /\ [](redaction_semaphore = -1 =>
             /\ \A c \in Callers : act[c].pc = "idle"
             /\ loop_pc \in {"none", "fetch"}
             /\ events_to_expire = << >>)
    /\ [][ /\ expirer_task = "none" /\ expirer_task' = "running" =>
                  redaction_semaphore' = -1
           /\ \A c \in Callers :
                  act[c].pc = "idle" /\ act'[c].pc # "idle" =>
                      redaction_semaphore # -1
         ]_vars

\* The sweep's invocation for the first row of a pass has taken the permit
\* and its first call of client.redact is in flight.
C23_Witness ==
    /\ expirer_task = "running"
    /\ act["sweep"].pc = "redacting"
    /\ act["sweep"].answers = << >>
    /\ redaction_semaphore = 0
    /\ row_idx = 1
============================================================================
